---- MODULE Spec2Model ----
(***************************************************************************)
(* Model of templates/kiss/tasks/optimize/optimize-wifi.py: the wireless   *)
(* roaming controller (Connection, ConnectionDatabase and the main loop).  *)
(*                                                                         *)
(* A Python str is a sequence of one-character strings, so that split(),   *)
(* isnumeric(), int() and the comparison of two bssids are computed as     *)
(* Python computes them.  None is the number -1 (every parsed number is    *)
(* >= 0), and the unset ssid is the empty str (the code tests it by        *)
(* truthiness).  A latency is an integer count of 1/LatScale ms, so that   *)
(* the halving of _calculate_latency is exact.                             *)
(***************************************************************************)
EXTENDS Integers, Sequences, FiniteSets, TLC

VARIABLES
    pc,          \* where __main__ stands
    error,       \* the uncaught exception when pc = "raised"
    bssids,      \* ConnectionDatabase._bssids: bssid -> Connection
    ssid,        \* ConnectionDatabase._ssid ("" is None)
    is_updated,  \* __main__'s is_updated
    interval,    \* the argument of the pending time.sleep
    nm,          \* the NetworkManager profile: its type and its pinned bssid
    calls,       \* how often each shell command has been run
    last,        \* what the last update_connection did
    call,        \* a single call Connection.calculate_score(self, base)
    air          \* the access points in the air, where they hold still

vars == <<pc, error, bssids, ssid, is_updated, interval, nm, calls, last, call, air>>

----------------------------------------------------------------------------
\* Bounds of the model.

\* update_connection runs at most MaxScans times in a checked behaviour.
MaxScans == 3

----------------------------------------------------------------------------
\* Python's None for a number, and the str helpers.

None == -1

Digits == <<"0", "1", "2", "3", "4", "5", "6", "7", "8", "9">>

\* The characters the model uses, in code point order (a subset of ASCII:
\* StrLess needs only their order).
Ascii == <<" ", "*", "-", ".", "/", "0", "1", "2", "3", "4", "5", "6", "7", "8",
           "9", ":", "A", "B", "C", "D", "E", "F", "G", "H", "I", "J", "K",
           "L", "M", "N", "O", "P", "Q", "R", "S", "T", "U", "V", "W", "X",
           "Y", "Z", "a", "b", "c", "d", "e", "f", "g", "h", "i", "j", "k",
           "l", "m", "n", "o", "p", "q", "r", "s", "t", "u", "v", "w", "x",
           "y", "z">>

Chars == {Ascii[i] : i \in 1..Len(Ascii)}

\* The rank of a character in code point order.
Ord == [c \in Chars |-> CHOOSE i \in 1..Len(Ascii) : Ascii[i] = c]

DigitVal == [c \in {Digits[i] : i \in 1..10} |-> (CHOOSE i \in 1..10 : Digits[i] = c) - 1]

\* str.__lt__: the first differing character decides, a proper prefix is less.
RECURSIVE StrLess(_, _)
StrLess(a, b) ==
    IF b = <<>> THEN FALSE
    ELSE IF a = <<>> THEN TRUE
    ELSE IF Head(a) = Head(b) THEN StrLess(Tail(a), Tail(b))
    ELSE Ord[Head(a)] < Ord[Head(b)]

\* str.isnumeric(): not empty and every character a digit.
isnumeric(item) ==
    /\ Len(item) > 0
    /\ \A i \in 1..Len(item) : item[i] \in DOMAIN DigitVal

\* int(item) of a numeric str.
RECURSIVE int(_)
int(item) ==
    IF item = <<>> THEN 0
    ELSE 10 * int(SubSeq(item, 1, Len(item) - 1)) + DigitVal[item[Len(item)]]

\* str(n) of an int n >= 0.
RECURSIVE str(_)
str(n) ==
    IF n < 10 THEN <<Digits[n + 1]>>
    ELSE str(n \div 10) \o <<Digits[(n % 10) + 1]>>

\* str.split(sep) with a one-character sep: the items between the
\* occurrences of sep, empty ones kept (the empty str splits into one empty
\* item).
split(s, sep) ==
    LET seps   == {i \in 1..Len(s) : s[i] = sep}
        n      == Cardinality(seps)
        pos(k) == IF k = 0 THEN 0
                  ELSE IF k = n + 1 THEN Len(s) + 1
                  ELSE CHOOSE i \in seps : Cardinality({j \in seps : j <= i}) = k
    IN  [k \in 1..(n + 1) |-> SubSeq(s, pos(k - 1) + 1, pos(k) - 1)]

NotEmpty(item) == item # <<>>

Whitespace == {" ", "\n"}

\* str.strip()
RECURSIVE lstrip(_)
lstrip(s) ==
    IF s # <<>> /\ Head(s) \in Whitespace THEN lstrip(Tail(s)) ELSE s

\* seq[::-1]
Reverse(seq) == [i \in 1..Len(seq) |-> seq[Len(seq) + 1 - i]]

strip(s) == Reverse(lstrip(Reverse(lstrip(s))))

----------------------------------------------------------------------------
\* class Connection

\* The loop of __init__ taking the first numeric item for the rate and the
\* second for the quality.
RECURSIVE ScanNumeric_rate_first(_, _, _)
ScanNumeric_rate_first(items, quality, rate) ==
    IF items = <<>> THEN [quality |-> quality, rate |-> rate]
    ELSE IF isnumeric(Head(items))
         THEN IF rate = None
              THEN ScanNumeric_rate_first(Tail(items), quality, int(Head(items)))
              ELSE [quality |-> int(Head(items)), rate |-> rate]
         ELSE ScanNumeric_rate_first(Tail(items), quality, rate)

\* The loop of __init__ over parsed[::-1]: the first numeric item is the
\* quality, the second the rate, and the loop breaks there.
RECURSIVE ScanNumeric(_, _, _)
ScanNumeric(items, quality, rate) ==
    IF items = <<>> THEN [quality |-> quality, rate |-> rate]
    ELSE IF isnumeric(Head(items))
         THEN IF quality = None
              THEN ScanNumeric(Tail(items), int(Head(items)), rate)
              ELSE [quality |-> quality, rate |-> int(Head(items))]
         ELSE ScanNumeric(Tail(items), quality, rate)

\* The items __init__ reads: [item for item in ('*' + info).split(' ') if item]
InfoItems(info) == SelectSeq(split(<<"*">> \o info, " "), NotEmpty)

\* Connection.__init__(info) raises the IndexError of parsed[1] or parsed[2]
\* on a line of fewer than three items.
ConnectionRaises(info) == Len(InfoItems(info)) < 3

\* Connection.__init__(info), for a line on which it does not raise.
Connection(info) ==
    LET parsed == InfoItems(info)
        nums   == ScanNumeric(Reverse(parsed), None, None)
    IN  [in_use  |-> (parsed[1] = <<"*", "*">>),
         bssid   |-> parsed[2],
         ssid    |-> parsed[3],
         quality |-> nums.quality,
         rate    |-> nums.rate,
         latency |-> None]

\* A latency counts units of 1/Ms milliseconds: float() keeps three decimals
\* and every probe of a run may halve the stored value once more.
RECURSIVE Pow(_, _)
Pow(b, e) == IF e = 0 THEN 1 ELSE b * Pow(b, e - 1)

Ms == 1000 * Pow(2, MaxScans)

\* float(item) of a decimal str such as 19 or 19.025, in latency units.
float(item) ==
    LET parts == split(item, ".")
    IN  IF Len(parts) = 1
        THEN int(parts[1]) * Ms
        ELSE int(parts[1]) * Ms + (int(parts[2]) * Ms) \div Pow(10, Len(parts[2]))

PING_SECS == 4

\* _calculate_latency adding the new latency to the stored one.
calculate_latency_sum(self, output) ==
    LET parsed  == split(strip(output), "/")
        latency == IF Len(parsed) = 4
                   THEN float(parsed[2]) + float(parsed[4])
                   ELSE 2 * PING_SECS * 1000 * Ms
    IN  [self EXCEPT !.latency = IF self.latency = None
                                 THEN latency
                                 ELSE self.latency + latency]

\* _calculate_latency falling back to PING_SECS * 1000.
calculate_latency_short_sentinel(self, output) ==
    LET parsed  == split(strip(output), "/")
        latency == IF Len(parsed) = 4
                   THEN float(parsed[2]) + float(parsed[4])
                   ELSE PING_SECS * 1000 * Ms
    IN  [self EXCEPT !.latency = IF self.latency = None
                                 THEN latency
                                 ELSE (self.latency + latency) \div 2]

\* Connection._calculate_latency(self), output being what the ping pipeline
\* prints: self with its new _latency.
calculate_latency(self, output) ==
    LET parsed  == split(strip(output), "/")
        latency == IF Len(parsed) = 4
                   THEN float(parsed[2]) + float(parsed[4])
                   ELSE 2 * PING_SECS * 1000 * Ms
    IN  [self EXCEPT !.latency = IF self.latency = None
                                 THEN latency
                                 ELSE (self.latency + latency) \div 2]

QUALITY_PANELTY == 10

\* What calculate_score returns, or the exception it raises.
Returns(is_available, score) ==
    [raised |-> "", accepted |-> is_available, score |-> score]

Raises(exception) == [raised |-> exception, accepted |-> FALSE, score |-> 0]

\* calculate_score without its rate gate.
calculate_score_no_rate_gate(self, base) ==
    IF self.latency # None /\ base.latency = None THEN Raises("TypeError")
    ELSE IF self.latency # None /\ self.latency > base.latency THEN Returns(FALSE, 0)
    ELSE IF self.quality = None \/ base.quality = None THEN Raises("TypeError")
    ELSE IF self.quality + QUALITY_PANELTY <= base.quality THEN Returns(FALSE, 0)
    ELSE Returns(TRUE, self.quality - base.quality)

\* calculate_score with a latency gate that rejects an equal latency too.
calculate_score_latency_ge(self, base) ==
    IF self.latency # None /\ base.latency = None THEN Raises("TypeError")
    ELSE IF self.latency # None /\ self.latency >= base.latency THEN Returns(FALSE, 0)
    ELSE IF self.quality = None \/ base.quality = None THEN Raises("TypeError")
    ELSE IF self.quality + QUALITY_PANELTY <= base.quality THEN Returns(FALSE, 0)
    ELSE IF self.rate = None \/ base.rate = None THEN Raises("TypeError")
    ELSE IF self.rate < base.rate THEN Returns(FALSE, 0)
    ELSE Returns(TRUE, self.quality - base.quality)

\* calculate_score with the operands of its score exchanged.
calculate_score_reversed(self, base) ==
    IF self.latency # None /\ base.latency = None THEN Raises("TypeError")
    ELSE IF self.latency # None /\ self.latency > base.latency THEN Returns(FALSE, 0)
    ELSE IF self.quality = None \/ base.quality = None THEN Raises("TypeError")
    ELSE IF self.quality + QUALITY_PANELTY <= base.quality THEN Returns(FALSE, 0)
    ELSE IF self.rate = None \/ base.rate = None THEN Raises("TypeError")
    ELSE IF self.rate < base.rate THEN Returns(FALSE, 0)
    ELSE Returns(TRUE, base.quality - self.quality)

\* Connection.calculate_score(self, base).  Comparing or adding None raises
\* TypeError.
calculate_score(self, base) ==
    IF self.latency # None /\ base.latency = None THEN Raises("TypeError")
    ELSE IF self.latency # None /\ self.latency > base.latency THEN Returns(FALSE, 0)
    ELSE IF self.quality = None \/ base.quality = None THEN Raises("TypeError")
    ELSE IF self.quality + QUALITY_PANELTY <= base.quality THEN Returns(FALSE, 0)
    ELSE IF self.rate = None \/ base.rate = None THEN Raises("TypeError")
    ELSE IF self.rate < base.rate THEN Returns(FALSE, 0)
    ELSE Returns(TRUE, self.quality - base.quality)

\* The digits of n / Ms after the decimal point, for 0 <= n < Ms.
RECURSIVE FractionDigits(_)
FractionDigits(n) ==
    IF n = 0 THEN <<>>
    ELSE <<Digits[((n * 10) \div Ms) + 1]>> \o FractionDigits((n * 10) % Ms)

\* str(latency) of a float: the integer part, the point, and the decimals
\* (one 0 if there is none).
float_str(latency) ==
    str(latency \div Ms) \o <<".">>
    \o (IF latency % Ms = 0 THEN <<"0">> ELSE FractionDigits(latency % Ms))

\* f'{value}' of an int or None.
format(value) == IF value = None THEN <<"N", "o", "n", "e">> ELSE str(value)

\* Connection.__repr__(self)
repr(self) ==
    (IF self.in_use THEN <<"*", " ">> ELSE <<>>)
    \o self.bssid \o <<" ">> \o self.ssid \o <<" ">> \o format(self.rate)
    \o <<" ", "M", "b", "i", "t", "/", "s", " ">> \o format(self.quality)
    \o (IF self.latency # None
        THEN <<" ">> \o float_str(self.latency) \o <<"m", "s">>
        ELSE <<>>)

\* Connection.get_list(), output being what nmcli prints: the header line is
\* dropped, empty lines are skipped, and the first line __init__ raises on
\* ends the call.
get_list(output) ==
    LET lines == SelectSeq(Tail(split(output, "\n")), NotEmpty)
    IN  IF \E i \in 1..Len(lines) : ConnectionRaises(lines[i])
        THEN [raised |-> "IndexError", infos |-> <<>>]
        ELSE [raised |-> "", infos |-> [i \in 1..Len(lines) |-> Connection(lines[i])]]

----------------------------------------------------------------------------
\* class ConnectionDatabase.  db is [bssids |-> _bssids, ssid |-> _ssid]; a
\* Connection held in _bssids is named by its key, the object being shared.

\* _fetch_connection that never learns the ssid.
fetch_connection_ssid_unset(db, info, output) ==
    LET fetched == IF info.bssid \in DOMAIN db.bssids
                   THEN [db.bssids[info.bssid] EXCEPT !.quality = info.quality]
                   ELSE info
        used    == [fetched EXCEPT !.in_use = info.in_use]
        probed  == IF used.in_use THEN calculate_latency(used, output) ELSE used
    IN  [bssids |-> [b \in DOMAIN db.bssids \cup {info.bssid} |->
                        IF b = info.bssid THEN probed ELSE db.bssids[b]],
         ssid   |-> db.ssid]

\* _fetch_connection starting a new dict at every fetch of a line in use.
fetch_connection_forgets(db, info, output) ==
    LET fetched == IF info.bssid \in DOMAIN db.bssids
                   THEN [db.bssids[info.bssid] EXCEPT !.quality = info.quality]
                   ELSE info
        used    == [fetched EXCEPT !.in_use = info.in_use]
        probed  == IF used.in_use THEN calculate_latency(used, output) ELSE used
    IN  [bssids |-> [b \in (IF info.in_use THEN {} ELSE DOMAIN db.bssids)
                             \cup {info.bssid} |->
                        IF b = info.bssid THEN probed ELSE db.bssids[b]],
         ssid   |-> IF db.ssid = <<>> THEN info.ssid ELSE db.ssid]

\* _fetch_connection pinging for every entry it fetches.
fetch_connection_pings_all(db, info, output) ==
    LET fetched == IF info.bssid \in DOMAIN db.bssids
                   THEN [db.bssids[info.bssid] EXCEPT !.quality = info.quality]
                   ELSE info
        used    == [fetched EXCEPT !.in_use = info.in_use]
        probed  == calculate_latency(used, output)
    IN  [bssids |-> [b \in DOMAIN db.bssids \cup {info.bssid} |->
                        IF b = info.bssid THEN probed ELSE db.bssids[b]],
         ssid   |-> IF db.ssid = <<>> THEN info.ssid ELSE db.ssid]

\* _fetch_connection dropping the latency of an entry that is not in use.
fetch_connection_resets_latency(db, info, output) ==
    LET fetched == IF info.bssid \in DOMAIN db.bssids
                   THEN [db.bssids[info.bssid] EXCEPT !.quality = info.quality]
                   ELSE info
        used    == [fetched EXCEPT !.in_use = info.in_use,
                                   !.latency = IF info.in_use THEN @ ELSE None]
        probed  == IF used.in_use THEN calculate_latency(used, output) ELSE used
    IN  [bssids |-> [b \in DOMAIN db.bssids \cup {info.bssid} |->
                        IF b = info.bssid THEN probed ELSE db.bssids[b]],
         ssid   |-> IF db.ssid = <<>> THEN info.ssid ELSE db.ssid]

\* _fetch_connection that never pings.
fetch_connection_no_ping(db, info, output) ==
    LET fetched == IF info.bssid \in DOMAIN db.bssids
                   THEN [db.bssids[info.bssid] EXCEPT !.quality = info.quality]
                   ELSE info
        used    == [fetched EXCEPT !.in_use = info.in_use]
    IN  [bssids |-> [b \in DOMAIN db.bssids \cup {info.bssid} |->
                        IF b = info.bssid THEN used ELSE db.bssids[b]],
         ssid   |-> IF db.ssid = <<>> THEN info.ssid ELSE db.ssid]

\* _fetch_connection(self, info), output being what its ping prints if it
\* probes: the database afterwards.
fetch_connection(db, info, output) ==
    LET fetched == IF info.bssid \in DOMAIN db.bssids
                   THEN [db.bssids[info.bssid] EXCEPT !.quality = info.quality]
                   ELSE info
        used    == [fetched EXCEPT !.in_use = info.in_use]
        probed  == IF used.in_use THEN calculate_latency(used, output) ELSE used
    IN  [bssids |-> [b \in DOMAIN db.bssids \cup {info.bssid} |->
                        IF b = info.bssid THEN probed ELSE db.bssids[b]],
         ssid   |-> IF db.ssid = <<>> THEN info.ssid ELSE db.ssid]

\* The generator's condition without its test of the ssid.
IsCurrent_any_ssid(db, info) == info.in_use

\* The condition of the generator that update_connection hands to next().
IsCurrent(db, info) ==
    info.in_use /\ (db.ssid = <<>> \/ db.ssid = info.ssid)

\* The candidates' condition without its test of the ssid.
IsCandidate_any_ssid(db, info) == ~info.in_use

\* The condition of the candidates comprehension.
IsCandidate(db, info) ==
    ~info.in_use /\ db.ssid = info.ssid

\* The candidates comprehension: every candidate line is fetched in scan
\* order (none is in use, so none is probed).
RECURSIVE FetchCandidates(_, _)
FetchCandidates(db, infos) ==
    IF infos = <<>> THEN [db |-> db, candidates |-> <<>>]
    ELSE IF IsCandidate(db, Head(infos))
         THEN LET rest == FetchCandidates(fetch_connection(db, Head(infos), <<>>),
                                          Tail(infos))
              IN  [db |-> rest.db,
                   candidates |-> <<Head(infos).bssid>> \o rest.candidates]
         ELSE FetchCandidates(db, Tail(infos))

\* A sort key of the score alone: equal scores keep their scan order.
candidate_score_sort_key_score_only(item) == <<0 - item.score, <<>>>>

\* _candidate_score_sort_key(item)
candidate_score_sort_key(item) == <<0 - item.score, item.bssid>>

\* The order of two (int, str) tuples.
KeyLess(k1, k2) ==
    \/ k1[1] < k2[1]
    \/ k1[1] = k2[1] /\ StrLess(k1[2], k2[2])

\* sorted(items, key=_candidate_score_sort_key): stable.
RECURSIVE InsertSorted(_, _)
InsertSorted(items, item) ==
    IF items = <<>> THEN <<item>>
    ELSE IF KeyLess(candidate_score_sort_key(item),
                    candidate_score_sort_key(Head(items)))
         THEN <<item>> \o items
         ELSE <<Head(items)>> \o InsertSorted(Tail(items), item)

RECURSIVE sorted(_)
sorted(items) ==
    IF items = <<>> THEN <<>>
    ELSE InsertSorted(sorted(SubSeq(items, 1, Len(items) - 1)), items[Len(items)])

IsAvailable(item) == item.accepted

\* What one update_connection did: the exception it raised ("" if none), the
\* database afterwards, the value it returned, and its steps.
Outcome(raised, db, infos, current, candidates, scores, ranked) ==
    [raised     |-> raised,
     db         |-> db,
     infos      |-> infos,
     current    |-> current,
     candidates |-> candidates,
     scores     |-> scores,
     ranked     |-> ranked,
     best       |-> IF ranked = <<>> THEN <<>> ELSE ranked[1].bssid,
     returned   |-> ranked # <<>>]

\* next(info for info in infos if ...): the first line of the scan that is
\* in use on the managed ssid.  next() raises StopIteration when HasCurrent
\* is false.
HasCurrent(db, infos) == \E i \in 1..Len(infos) : IsCurrent(db, infos[i])

RECURSIVE NextCurrent(_, _)
NextCurrent(db, infos) ==
    IF IsCurrent(db, Head(infos)) THEN Head(infos)
    ELSE NextCurrent(db, Tail(infos))

\* candidates_score: each candidate scored against current, both read from
\* the database as the fetches left it.
Scored(bssid, result) ==
    [bssid |-> bssid, raised |-> result.raised, accepted |-> result.accepted,
     score |-> result.score]

CandidatesScore(db, current, candidates) ==
    [i \in 1..Len(candidates) |->
        Scored(candidates[i],
               calculate_score(db.bssids[candidates[i]], db.bssids[current]))]

RECURSIVE UpToRaise(_)
UpToRaise(scores) ==
    IF Head(scores).raised # "" THEN <<Head(scores)>>
    ELSE <<Head(scores)>> \o UpToRaise(Tail(scores))

\* The end of update_connection: the first calculate_score that raises ends
\* the call, else the accepted candidates are sorted and the first one, if
\* any, is connected to.
Select(db, infos, current, candidates, scores) ==
    IF \E i \in 1..Len(scores) : scores[i].raised # ""
    THEN Outcome("TypeError", db, infos, current, candidates, UpToRaise(scores), <<>>)
    ELSE Outcome("", db, infos, current, candidates, scores,
                 sorted(SelectSeq(scores, IsAvailable)))

\* update_connection from the fetch of the candidates on.
ScoreCandidates(infos, current, fetched) ==
    Select(fetched.db, infos, current, fetched.candidates,
           CandidatesScore(fetched.db, current, fetched.candidates))

\* update_connection from the fetch of current on.
FetchAndScore(db, infos, first, output) ==
    ScoreCandidates(infos, first.bssid,
                    FetchCandidates(fetch_connection(db, first, output), infos))

\* update_connection(self, is_updated), got being what Connection.get_list()
\* returned or raised and output what the ping of this call prints.
update_connection(db, got, output) ==
    IF got.raised # ""
    THEN Outcome(got.raised, db, <<>>, <<>>, <<>>, <<>>, <<>>)
    ELSE IF ~HasCurrent(db, got.infos)
    THEN Outcome("StopIteration", db, got.infos, <<>>, <<>>, <<>>, <<>>)
    ELSE FetchAndScore(db, got.infos, NextCurrent(db, got.infos), output)

----------------------------------------------------------------------------
\* The shell commands' side: what nmcli and ping print.

AA == <<"A", "A">>
BB == <<"B", "B">>
ZZ == <<"Z", "Z">>
home == <<"h", "o", "m", "e">>
cafe == <<"c", "a", "f", "e">>

AccessPoints == {AA, BB, ZZ}

NmcliHeader ==
    <<"I", "N", "-", "U", "S", "E", " ", " ", "B", "S", "S", "I", "D", " ", " ",
      "S", "S", "I", "D", " ", " ", "M", "O", "D", "E", " ", " ", "C", "H", "A",
      "N", " ", " ", "R", "A", "T", "E", " ", " ", "S", "I", "G", "N", "A", "L",
      " ", " ", "B", "A", "R", "S", " ", " ", "S", "E", "C", "U", "R", "I", "T",
      "Y">>

\* One access point as the scan reads it.
Reading(in_use, bssid, name, rate, signal) ==
    [in_use |-> in_use, bssid |-> bssid, ssid |-> name, rate |-> rate,
     signal |-> signal]

\* The row nmcli prints for a reading: IN-USE, BSSID, SSID, MODE, CHAN, RATE,
\* SIGNAL, BARS, SECURITY.
NmcliRow(r) ==
    (IF r.in_use THEN <<"*">> ELSE <<" ">>) \o <<" ", " ", " ", " ", " ", " ", " ">>
    \o r.bssid \o <<" ", " ">> \o r.ssid \o <<" ", " ">>
    \o <<"I", "n", "f", "r", "a">> \o <<" ", " ">> \o <<"6">> \o <<" ", " ">>
    \o str(r.rate) \o <<" ", "M", "b", "i", "t", "/", "s">> \o <<" ", " ">>
    \o str(r.signal) \o <<" ", " ">> \o <<"*", "*", "*", "*">> \o <<" ", " ">>
    \o <<"W", "P", "A", "2">>

RECURSIVE JoinLines(_)
JoinLines(lines) ==
    IF lines = <<>> THEN <<>>
    ELSE Head(lines) \o <<"\n">> \o JoinLines(Tail(lines))

\* What nmcli device wifi list prints for a sequence of readings.
NmcliOutput(readings) ==
    JoinLines(<<NmcliHeader>> \o [i \in 1..Len(readings) |-> NmcliRow(readings[i])])

\* The readings the scans of Spec are made of.
Readings ==
    { Reading(TRUE,  AA, home, 100, 50),
      Reading(FALSE, AA, home, 54,  50),
      Reading(FALSE, AA, home, 100, 65),
      Reading(TRUE,  BB, home, 100, 60),
      Reading(FALSE, BB, home, 100, 50),
      Reading(FALSE, BB, home, 100, 58),
      Reading(FALSE, BB, home, 100, 65),
      Reading(FALSE, ZZ, home, 100, 65),
      Reading(FALSE, ZZ, cafe, 100, 65),
      Reading(TRUE,  ZZ, cafe, 100, 50) }

\* The orders in which nmcli may list the access points.
ScanOrders == {<<AA, BB, ZZ>>, <<ZZ, BB, AA>>}

\* A scan sees a subset of the access points, at most one of them in use.
Sightings ==
    { seen \in SUBSET Readings :
        /\ \A r1, r2 \in seen : r1.bssid = r2.bssid => r1 = r2
        /\ \A r1, r2 \in seen : r1.in_use /\ r2.in_use => r1 = r2 }

\* The readings seen, listed in the order of their access points.
RECURSIVE Listed(_, _)
Listed(seen, order) ==
    IF order = <<>> THEN <<>>
    ELSE LET here == {r \in seen : r.bssid = Head(order)}
         IN  (IF here = {} THEN <<>> ELSE <<CHOOSE r \in here : TRUE>>)
             \o Listed(seen, Tail(order))

\* Outputs with a line that is no record: a line of spaces, and rows that
\* lack the numeric columns.
MalformedOutputs ==
    LET active == NmcliRow(Reading(TRUE, AA, home, 100, 50))
    IN  { JoinLines(<<NmcliHeader, active, <<" ", " ", " ">> >>),
          JoinLines(<<NmcliHeader, active, <<" ", " ">> \o BB \o <<" ">> \o home>>),
          JoinLines(<<NmcliHeader, active,
                      <<" ", " ">> \o BB \o <<" ">> \o home \o <<" ", "5", "8">> >>),
          <<>> }

ScanOutputs ==
    {NmcliOutput(Listed(seen, order)) : seen \in Sightings, order \in ScanOrders}
    \cup MalformedOutputs

\* What Connection.get_list() returns or raises on each output.
Scans == {get_list(output) : output \in ScanOutputs}

\* What the ping pipeline prints: min/avg/max/mdev, or the fourth word of
\* ping's summary line when no reply came.
PingOutputs ==
    { <<"1", "8", ".", "1", "0", "0", "/", "1", "9", ".", "0", "0", "0", "/",
        "2", "2", ".", "3", "0", "0", "/", "1", ".", "0", "0", "0", "\n">>,
      <<"0", "\n">> }

----------------------------------------------------------------------------
\* __main__

\* is_available answering for any profile.
is_available_any_type(profile) == TRUE

\* is_available(self): the grep prints a line only for a wireless profile.
is_available(profile) == profile.type = "802-11-wireless"

ShortInterval == 5

LongInterval == 5 * 60

\* The two intervals exchanged.
sleep_secs_exchanged(updated) == IF updated THEN LongInterval ELSE ShortInterval

\* The argument of time.sleep after update_connection returned is_updated.
sleep_secs(updated) == IF updated THEN ShortInterval ELSE LongInterval

\* The exit status of the process: exit(0), or Python's status 1 for an
\* uncaught exception; None while it runs.
ExitStatus == IF pc = "exit" THEN 0 ELSE IF pc = "raised" THEN 1 ELSE None

\* No update_connection has run yet.
NoLast ==
    [ran |-> FALSE, raised |-> "", infos |-> <<>>, current |-> <<>>,
     candidates |-> <<>>, scores |-> <<>>, ranked |-> <<>>, best |-> <<>>,
     returned |-> FALSE, steps |-> <<>>, switch |-> <<>>, previous |-> <<>>,
     probe |-> <<>>, again |-> FALSE]

NoCall == [self |-> <<>>, other |-> <<>>, base |-> <<>>, done |-> FALSE,
           result |-> Returns(FALSE, 0), result2 |-> Returns(FALSE, 0)]

NoAir == [signal |-> <<>>, rate |-> <<>>, associated |-> <<>>, ping |-> <<>>]

\* The profiles nmcli connection show may find: the managed profile as a
\* wireless one (with or without a bssid pinned by an earlier run), as a
\* wired one, or not at all.
Profiles ==
    [type : {"802-11-wireless", "802-3-ethernet", ""}, bssid : {<<>>, ZZ}]

InitProgram ==
    /\ pc = "main"
    /\ error = ""
    /\ bssids = <<>>
    /\ ssid = <<>>
    /\ is_updated = FALSE
    /\ interval = 0
    /\ calls = [show |-> 0, reset |-> 0, scan |-> 0, ping |-> 0, connect |-> 0]
    /\ last = NoLast

Init ==
    /\ InitProgram
    /\ nm \in Profiles
    /\ call = NoCall
    /\ air = NoAir

\* connections = ConnectionDatabase(); if not connections.is_available():
\* print(...); exit(0)
Main ==
    /\ pc = "main"
    /\ calls' = [calls EXCEPT !.show = @ + 1]
    /\ pc' = IF is_available(nm) THEN "reset" ELSE "exit"
    /\ UNCHANGED <<error, bssids, ssid, is_updated, interval, nm, last, call, air>>

\* connections.reset(); is_updated = True
Reset ==
    /\ pc = "reset"
    /\ nm' = [nm EXCEPT !.bssid = <<>>]
    /\ calls' = [calls EXCEPT !.reset = @ + 1]
    /\ is_updated' = TRUE
    /\ pc' = "loop"
    /\ UNCHANGED <<error, bssids, ssid, interval, last, call, air>>

\* The shell commands and the scorings of one update_connection, in order.
Steps(done) ==
    <<"scan">>
    \o (IF done.current # <<>> THEN <<"ping">> ELSE <<>>)
    \o [i \in 1..Len(done.scores) |-> "score"]
    \o (IF done.returned THEN <<"connect">> ELSE <<>>)

\* The rest of a pass of the while loop once update_connection is done: an
\* exception is not caught and ends the process; else is_updated is what
\* the call returned and decides the argument of time.sleep.  connect() of
\* the best candidate pins its bssid in the profile.  output is what the
\* ping of the call printed, if it pinged; again tells that get_list()
\* returned what it returned to the call before.
Finish(done, output) ==
    /\ bssids' = done.db.bssids
    /\ ssid' = done.db.ssid
    /\ calls' = [calls EXCEPT
                   !.scan = @ + 1,
                   !.ping = @ + (IF done.current # <<>> THEN 1 ELSE 0),
                   !.connect = @ + (IF done.returned THEN 1 ELSE 0)]
    /\ last' = [ran |-> TRUE, raised |-> done.raised, infos |-> done.infos,
                current |-> done.current, candidates |-> done.candidates,
                scores |-> done.scores, ranked |-> done.ranked,
                best |-> done.best, returned |-> done.returned,
                steps |-> Steps(done),
                switch |-> IF done.returned
                           THEN <<done.current, done.best>> ELSE <<>>,
                previous |-> last.switch,
                probe |-> IF done.current # <<>> THEN output ELSE <<>>,
                again |-> last.ran /\ done.raised = "" /\ done.infos = last.infos]
    /\ IF done.raised # ""
       THEN /\ pc' = "raised"
            /\ error' = done.raised
            /\ UNCHANGED <<is_updated, interval, nm>>
       ELSE /\ pc' = "sleep"
            /\ is_updated' = done.returned
            /\ interval' = sleep_secs(done.returned)
            /\ nm' = IF done.returned THEN [nm EXCEPT !.bssid = done.best] ELSE nm
            /\ UNCHANGED error

\* One pass of the while loop, up to the call of time.sleep:
\* is_updated = connections.update_connection(is_updated).
Iterate(got, output) ==
    /\ pc = "loop"
    /\ Finish(update_connection([bssids |-> bssids, ssid |-> ssid], got, output), output)
    /\ UNCHANGED <<call, air>>

\* The loop under any scan and any ping output.
Loop ==
    /\ calls.scan < MaxScans
    /\ \E got \in Scans, output \in PingOutputs : Iterate(got, output)

\* The loop body starting over from reset() after the sleep.
Sleep_resets ==
    /\ pc = "sleep"
    /\ pc' = "reset"
    /\ UNCHANGED <<error, bssids, ssid, is_updated, interval, nm, calls, last, call, air>>

\* time.sleep(interval) returns.
Sleep ==
    /\ pc = "sleep"
    /\ pc' = "loop"
    /\ UNCHANGED <<error, bssids, ssid, is_updated, interval, nm, calls, last, call, air>>

Next == Main \/ Reset \/ Loop \/ Sleep

Spec == Init /\ [][Next]_vars

----------------------------------------------------------------------------
\* The access points holding still: every scan lists the same readings, the
\* device is associated with the access point the profile pins (with
\* air.associated while none is pinned), and every ping prints the same.

StableSignals == {50, 58, 65}

StableRates == {54, 100}

Airs ==
    [signal : [AccessPoints -> StableSignals], rate : [AccessPoints -> StableRates],
     associated : AccessPoints, ping : PingOutputs]

Associated == IF nm.bssid # <<>> THEN nm.bssid ELSE air.associated

AirReading(bssid) ==
    Reading(bssid = Associated, bssid, home, air.rate[bssid], air.signal[bssid])

InitStable ==
    /\ InitProgram
    /\ nm \in {profile \in Profiles : is_available(profile)}
    /\ call = NoCall
    /\ air \in Airs

StableLoop ==
    /\ calls.scan < MaxScans
    /\ Iterate(get_list(NmcliOutput(<<AirReading(AA), AirReading(BB), AirReading(ZZ)>>)),
               air.ping)

NextStable == Main \/ Reset \/ StableLoop \/ Sleep

SpecStable == InitStable /\ [][NextStable]_vars

----------------------------------------------------------------------------
\* Single calls of calculate_score: self and other are one candidate at two
\* qualities, scored against the same base.

Entry(in_use, bssid, quality, rate, latency) ==
    [in_use |-> in_use, bssid |-> bssid, ssid |-> home, quality |-> quality,
     rate |-> rate, latency |-> latency]

CandidateQualities == {39, 40, 41, 49, 50, 51, 58, 59, 60, 61, 65}

BaseQualities == {50, 51}

Rates == {54, 100}

Latencies == {20 * Ms, 40 * Ms}

ScoreCalls ==
    { [self   |-> Entry(FALSE, BB, q1, r, l),
       other  |-> Entry(FALSE, BB, q2, r, l),
       base   |-> Entry(TRUE, AA, qb, rb, lb),
       done   |-> FALSE,
       result |-> Returns(FALSE, 0),
       result2 |-> Returns(FALSE, 0)] :
        q1 \in CandidateQualities, q2 \in CandidateQualities,
        r \in Rates, l \in Latencies \cup {None},
        qb \in BaseQualities, rb \in Rates, lb \in Latencies }

InitScore ==
    /\ InitProgram
    /\ nm = [type |-> "802-11-wireless", bssid |-> <<>>]
    /\ air = NoAir
    /\ call \in {c \in ScoreCalls : c.self.quality < c.other.quality}

Score ==
    /\ ~call.done
    /\ call.self # <<>>
    /\ call' = [call EXCEPT !.done = TRUE,
                            !.result = calculate_score(call.self, call.base),
                            !.result2 = calculate_score(call.other, call.base)]
    /\ UNCHANGED <<pc, error, bssids, ssid, is_updated, interval, nm, calls, last, air>>

SpecScore == InitScore /\ [][Score]_vars

----------------------------------------------------------------------------
\* Single lines through Connection.__init__ and __repr__: a line is parsed,
\* the entry is printed (as it is, or after a ping stored a latency in it),
\* and the printed line is parsed again.

ParseReadings ==
    { Reading(in_use, bssid, name, rate, signal) :
        in_use \in BOOLEAN, bssid \in {AA, BB}, name \in {home, cafe},
        rate \in {54, 100}, signal \in {50, 65} }

\* The rows of nmcli, and lines that lack columns or whose bssid and ssid
\* are numeric.
ParseLines ==
    {NmcliRow(r) : r \in ParseReadings}
    \cup { <<" ", " ", " ">>,
           <<" ", " ">> \o BB,
           <<" ", " ">> \o BB \o <<" ">> \o home,
           <<" ", " ">> \o BB \o <<" ">> \o home \o <<" ", "5", "8">>,
           <<"*", " ", "1", "2", " ", "3", "4">>,
           <<" ", " ", "1", "2", " ", "3", "4", " ", "W", "P", "A", "2">> }

\* Connection(info), or the exception it raises.
TryConnection(info) ==
    IF ConnectionRaises(info) THEN [raised |-> "IndexError"]
    ELSE [raised |-> ""] @@ Connection(info)

InitParse ==
    /\ InitProgram
    /\ nm = [type |-> "802-11-wireless", bssid |-> <<>>]
    /\ air = NoAir
    /\ call \in {[step |-> "line", info |-> info] : info \in ParseLines}

Parse ==
    /\ call.step = "line"
    /\ call' = [step  |-> "parsed",
                info  |-> call.info,
                entry |-> TryConnection(call.info)]
    /\ UNCHANGED <<pc, error, bssids, ssid, is_updated, interval, nm, calls, last, air>>

Printed(entry) ==
    [step  |-> "printed",
     info  |-> call.info,
     entry |-> entry,
     line  |-> repr(entry),
     again |-> TryConnection(repr(entry))]

Render ==
    /\ call.step = "parsed"
    /\ call.entry.raised = ""
    /\ \/ call' = Printed(call.entry)
       \/ \E output \in PingOutputs :
             call' = Printed(calculate_latency(call.entry, output))
    /\ UNCHANGED <<pc, error, bssids, ssid, is_updated, interval, nm, calls, last, air>>

NextParse == Parse \/ Render

SpecParse == InitParse /\ [][NextParse]_vars

----------------------------------------------------------------------------
\* The claims.

\* The scores of the last update_connection that accepted their candidate.
Accepted == {i \in 1..Len(last.scores) : last.scores[i].accepted}

\* The last update_connection ran to its return.
Returned == last.ran /\ last.raised = ""

Count(step, steps) == Cardinality({i \in 1..Len(steps) : steps[i] = step})

\* C1 (as claimed): a candidate is accepted only if its quality is strictly
\* greater than the active entry's quality plus QUALITY_PENALTY = 10; when
\* no candidate of an iteration is that much better, nothing is connected
\* to and the long interval is slept.
C1_QualityGateBeatsByPenalty ==
    Returned =>
        /\ \A i \in Accepted :
              bssids[last.scores[i].bssid].quality > bssids[last.current].quality + 10
        /\ (\A i \in 1..Len(last.scores) :
              bssids[last.scores[i].bssid].quality <= bssids[last.current].quality + 10)
           => Count("connect", last.steps) = 0 /\ interval = 300

\* C2 (as claimed): whenever update_connection connects to a candidate, the
\* candidate's quality is strictly greater than the active entry's.
C2_SwitchStrictlyBetter ==
    Returned /\ last.returned =>
        bssids[last.best].quality > bssids[last.current].quality

\* C3 (as claimed): with the access points holding still, the controller
\* never switches from one access point to another and then back.
C3_NeverSwitchesBack ==
    ~ /\ last.switch # <<>>
      /\ last.previous # <<>>
      /\ last.switch = <<last.previous[2], last.previous[1]>>

\* C4: calculate_score never accepts a candidate whose rate is below the
\* base's, whatever the qualities and latencies; a candidate of equal rate
\* is accepted when the latency gate and the quality gate pass.
C4_RateGate ==
    call.done =>
        /\ call.self.rate < call.base.rate => ~call.result.accepted
        /\ ( /\ call.self.rate = call.base.rate
             /\ call.self.latency = None \/ call.self.latency <= call.base.latency
             /\ call.self.quality + 10 > call.base.quality )
           => call.result.accepted

W_C4_SlowerCandidateRejected ==
    /\ call.done
    /\ call.self.rate < call.base.rate
    /\ call.self.quality > call.base.quality
    /\ call.self.latency = None
    /\ ~call.result.accepted

\* C5: calculate_score is the three-gate reference: (false, 0) if the
\* candidate has a latency above the base's, else (false, 0) unless
\* candidate.quality + 10 > base.quality, else (false, 0) if the candidate's
\* rate is below the base's, else (true, candidate.quality - base.quality).
\* A candidate without latency, or with the base's latency, passes the
\* first gate.
C5_ThreeGates ==
    call.done =>
        LET c == call.self
            a == call.base
            late   == c.latency # None /\ c.latency > a.latency
            weak   == ~(c.quality + 10 > a.quality)
            slow   == c.rate < a.rate
        IN  /\ call.result.raised = ""
            /\ late \/ weak \/ slow
                 => ~call.result.accepted /\ call.result.score = 0
            /\ ~(late \/ weak \/ slow)
                 => call.result.accepted /\ call.result.score = c.quality - a.quality
            /\ (c.latency = None \/ c.latency = a.latency) /\ ~weak /\ ~slow
                 => call.result.accepted

W_C5_EqualLatencyPasses ==
    /\ call.done
    /\ call.self.latency = call.base.latency
    /\ call.self.quality = 41 /\ call.base.quality = 50
    /\ call.result.accepted
    /\ call.result.score = 0 - 9

\* C6: the candidate connected to has the greatest score among the accepted
\* candidates of the iteration and, among those of that score, the smallest
\* bssid, whatever the order of the scan's lines; there is none iff no
\* candidate was accepted.
C6_Selector ==
    Returned =>
        /\ last.best = <<>> <=> Accepted = {}
        /\ last.best # <<>> =>
             \E i \in Accepted :
                /\ last.scores[i].bssid = last.best
                /\ \A j \in Accepted :
                      \/ last.scores[i].score > last.scores[j].score
                      \/ /\ last.scores[i].score = last.scores[j].score
                         /\ \/ last.scores[i].bssid = last.scores[j].bssid
                            \/ StrLess(last.scores[i].bssid, last.scores[j].bssid)

W_C6_TieGoesToSmallerBssid ==
    /\ Returned
    /\ last.candidates = <<ZZ, AA>>
    /\ last.scores[1].accepted /\ last.scores[2].accepted
    /\ last.scores[1].score = last.scores[2].score
    /\ last.best = AA

\* C7: with base, rate and latency fixed and q1 < q2, a candidate accepted
\* at quality q1 is accepted at q2, with a strictly greater score.
C7_MonotonicInQuality ==
    call.done /\ call.self.quality < call.other.quality /\ call.result.accepted
        => call.result2.accepted /\ call.result2.score > call.result.score

W_C7_AcceptedAtBoth ==
    /\ call.done
    /\ call.self.quality = 41 /\ call.other.quality = 49
    /\ call.result.accepted

\* C8: an iteration with a winner connects to it, once, and sleeps 5 s; an
\* iteration without a winner connects to nothing and sleeps 5 min; the
\* loop goes on either way.
C8_TwoSpeedCadence ==
    Returned =>
        /\ pc \in {"sleep", "loop"}
        /\ Accepted # {} =>
              /\ Count("connect", last.steps) = 1
              /\ last.best # <<>> /\ nm.bssid = last.best
              /\ is_updated /\ interval = 5
        /\ Accepted = {} =>
              /\ Count("connect", last.steps) = 0
              /\ ~is_updated /\ interval = 300

W_C8_SwitchToBB ==
    /\ pc = "sleep" /\ interval = 5
    /\ last.current = AA /\ last.candidates = <<BB>>
    /\ bssids[AA].quality = 50 /\ bssids[AA].rate = 100
    /\ bssids[BB].quality = 65 /\ bssids[BB].rate = 100
    /\ last.scores[1].accepted /\ last.scores[1].score = 15
    /\ nm.bssid = BB

\* C9: an iteration whose scan has no line in use on the managed ssid ends
\* the process with an exception: nothing is pinged, scored or connected to
\* in it, and nothing runs afterwards.
C9_LossOfAssociationIsFatal ==
    /\ ( /\ last.ran
         /\ ~\E i \in 1..Len(last.infos) :
                /\ last.infos[i].in_use
                /\ ssid = <<>> \/ last.infos[i].ssid = ssid )
       => /\ pc = "raised"
          /\ last.steps = <<"scan">>
          /\ last.switch = <<>>
    /\ pc = "raised" => ~ENABLED Next

W_C9_AssociationLost ==
    /\ pc = "raised" /\ error = "StopIteration"
    /\ ssid = home
    /\ \E i \in 1..Len(last.infos) : last.infos[i].in_use /\ last.infos[i].ssid = cafe
    /\ calls.scan = 2 /\ calls.ping = 1

\* C10: without a managed wireless profile the process exits with status 0
\* at once: no reset, no scan, no ping, no connect, and nothing runs
\* afterwards.
C10_UnavailableExitsCleanly ==
    /\ nm.type # "802-11-wireless" /\ pc # "main" => pc = "exit"
    /\ pc = "exit" =>
          /\ ExitStatus = 0
          /\ calls = [show |-> 1, reset |-> 0, scan |-> 0, ping |-> 0, connect |-> 0]
          /\ ~last.ran /\ bssids = <<>> /\ ssid = <<>>
          /\ ~ENABLED Next

W_C10_Unavailable ==
    /\ pc = "exit"
    /\ nm = [type |-> "802-3-ethernet", bssid |-> ZZ]

\* C11: with a managed wireless profile, reset() runs exactly once in the
\* run: after the availability check, before the first scan (it leaves no
\* bssid pinned until the first connect), and never again while the loop
\* runs.
C11_ResetOnceAtStartup ==
    /\ calls.reset <= 1
    /\ calls.reset = 1 => calls.show = 1 /\ is_available(nm)
    /\ pc \in {"main", "reset"} => calls.reset = 0 /\ calls.scan = 0
    /\ is_available(nm) /\ pc \notin {"main", "reset"} => calls.reset = 1
    /\ calls.scan > 0 => calls.reset = 1
    /\ calls.reset = 1 /\ calls.connect = 0 => nm.bssid = <<>>

W_C11_ResetThenTwoScans ==
    /\ pc = "sleep"
    /\ calls.reset = 1
    /\ calls.scan = 2
    /\ calls.connect = 2

\* C12 (as claimed): after an update_connection, every entry of _bssids
\* whose bssid is on a line of the scan it merged has the quality and the
\* rate of that line.
C12_MergeOverwritesRate ==
    Returned =>
        \A i \in 1..Len(last.infos) :
            last.infos[i].bssid \in {last.current} \cup {last.candidates[j] : j \in 1..Len(last.candidates)}
                => /\ bssids[last.infos[i].bssid].quality = last.infos[i].quality
                   /\ bssids[last.infos[i].bssid].rate = last.infos[i].rate

\* The lines of a scan that are in use.
InUse(infos) == {i \in 1..Len(infos) : infos[i].in_use}

\* C13: _ssid is unset until the first scan with a line in use, is set by
\* that scan to the ssid of its first line in use, and never changes
\* afterwards, whatever ssid later scans report as in use.
C13_SsidWriteOnce ==
    [][ /\ ssid # <<>> => ssid' = ssid
        /\ ssid = <<>> /\ calls'.scan = calls.scan + 1 =>
              IF last'.raised # "IndexError" /\ InUse(last'.infos) # {}
              THEN \E i \in InUse(last'.infos) :
                      /\ \A j \in InUse(last'.infos) : i <= j
                      /\ ssid' = last'.infos[i].ssid
              ELSE ssid' = <<>>
        /\ calls'.scan = calls.scan => ssid' = ssid ]_vars

W_C13_OtherSsidInUseLater ==
    /\ ssid = home
    /\ AA \in DOMAIN bssids
    /\ calls.scan = 3
    /\ \E i \in InUse(last.infos) : last.infos[i].ssid = cafe

\* C14: _bssids never loses a key, every entry is held under its own bssid,
\* and an entry keeps the ssid it was created with.
C14_RegistryGrowsKeysStable ==
    [][ /\ DOMAIN bssids \subseteq DOMAIN bssids'
        /\ \A k \in DOMAIN bssids' : bssids'[k].bssid = k
        /\ \A k \in DOMAIN bssids : bssids'[k].ssid = bssids[k].ssid ]_vars

W_C14_EntryKeptWhenNotScanned ==
    /\ Returned
    /\ calls.connect >= 1
    /\ DOMAIN bssids = {AA, BB, ZZ}
    /\ Len(last.infos) = 1

\* The latency one ping printing output measures: what _calculate_latency
\* stores in an entry that has none.
Measured(output) == calculate_latency([latency |-> None], output).latency

\* The stored latency of the entry of bssid k in registry, None if it has no
\* entry.
LatencyOf(registry, k) ==
    IF k \in DOMAIN registry THEN registry[k].latency ELSE None

\* C15: an update_connection that merges the very scan the one before it
\* merged leaves _bssids with the same keys and, in every entry, the same
\* bssid, ssid, quality, rate and in_use; only the latency of the entry in
\* use may change.  A ping that measures the value the entry in use already
\* stores (or the first one) leaves that value stored: under constant pings
\* the stored latency is that constant after every update.
C15_MergeIdempotent ==
    [][ /\ ( /\ calls'.scan = calls.scan + 1
             /\ last.ran /\ last.raised = "" /\ last'.raised = ""
             /\ last'.infos = last.infos )
           => /\ DOMAIN bssids' = DOMAIN bssids
              /\ \A k \in DOMAIN bssids :
                    /\ bssids'[k].bssid = bssids[k].bssid
                    /\ bssids'[k].ssid = bssids[k].ssid
                    /\ bssids'[k].quality = bssids[k].quality
                    /\ bssids'[k].rate = bssids[k].rate
                    /\ bssids'[k].in_use = bssids[k].in_use
                    /\ k # last'.current => bssids'[k].latency = bssids[k].latency
        /\ ( /\ calls'.ping = calls.ping + 1
             /\ LatencyOf(bssids, last'.current) \in {None, Measured(last'.probe)} )
           => bssids'[last'.current].latency = Measured(last'.probe) ]_vars

W_C15_SameScanTwice ==
    /\ Returned /\ last.again
    /\ calls.scan = 3
    /\ last.current = BB /\ last.candidates = <<AA>>
    /\ last.probe = <<"0", "\n">>
    /\ bssids[BB].latency = Measured(<<"0", "\n">>)
    /\ bssids[AA].latency = 20 * Ms
    /\ bssids[AA].rate # last.infos[1].rate

\* C16 (as claimed): a line of the scan that lacks a bssid, an ssid, a
\* quality or a rate ends no update_connection with an exception and puts
\* no entry into _bssids.
C16_MalformedLinesSkipped ==
    /\ last.ran => last.raised \notin {"IndexError", "TypeError"}
    /\ \A k \in DOMAIN bssids : bssids[k].quality # None /\ bssids[k].rate # None

\* A ping output without round-trip statistics: not min/avg/max/mdev.
Unparsable(output) == Cardinality({i \in 1..Len(output) : output[i] = "/"}) # 3

\* Every line of the scan has a quality and a rate.
WellFormed(infos) ==
    \A i \in 1..Len(infos) : infos[i].quality # None /\ infos[i].rate # None

\* C17: a ping whose output has no round-trip statistics measures the
\* sentinel 2 * PING_SECS * 1000 = 8000 ms, which is stored as a first
\* latency or averaged with the stored one like any measurement; the
\* update_connection then scores every candidate and returns (the one
\* exception left in it being the TypeError of a line without quality or
\* rate, which the ping does not cause).
C17_UnparsableProbeIsSentinel ==
    [][ calls'.ping = calls.ping + 1 /\ Unparsable(last'.probe) =>
          /\ bssids'[last'.current].latency =
                IF LatencyOf(bssids, last'.current) = None
                THEN 8000 * Ms
                ELSE (LatencyOf(bssids, last'.current) + 8000 * Ms) \div 2
          /\ last'.raised \in {"", "TypeError"}
          /\ WellFormed(last'.infos) =>
                /\ last'.raised = ""
                /\ Len(last'.scores) = Len(last'.candidates)
                /\ pc' = "sleep" ]_vars

W_C17_SentinelMerged ==
    /\ Returned
    /\ Unparsable(last.probe)
    /\ bssids[last.current].latency = (20 * Ms + 8000 * Ms) \div 2
    /\ Len(last.scores) = 2
    /\ last.best # <<>>

\* The positions of the numeric items of a line, and the greatest of a set
\* of positions.
Numerics(info) ==
    {i \in 1..Len(InfoItems(info)) : isnumeric(InfoItems(info)[i])}

Last(positions) == CHOOSE i \in positions : \A j \in positions : j <= i

\* C18 (as claimed): the last numeric item of a line is parsed as the rate
\* and the numeric item before it as the quality.
C18_LastNumericIsRate ==
    call.step = "parsed" /\ call.entry.raised = "" /\ Cardinality(Numerics(call.info)) >= 2 =>
        /\ call.entry.rate = int(InfoItems(call.info)[Last(Numerics(call.info))])
        /\ call.entry.quality =
              int(InfoItems(call.info)[Last(Numerics(call.info) \ {Last(Numerics(call.info))})])

\* C18 (amended): the last numeric item of a line is parsed as the quality
\* and the numeric item before it as the rate, the other items of the line
\* being ignored; a line without them leaves the quality, or the rate,
\* None.
C18_LastNumericIsQuality ==
    call.step = "parsed" /\ call.entry.raised = "" =>
        /\ call.entry.quality =
              IF Numerics(call.info) = {} THEN None
              ELSE int(InfoItems(call.info)[Last(Numerics(call.info))])
        /\ call.entry.rate =
              IF Cardinality(Numerics(call.info)) < 2 THEN None
              ELSE int(InfoItems(call.info)[Last(Numerics(call.info) \ {Last(Numerics(call.info))})])

W_C18_RowOfNmcli ==
    /\ call.step = "parsed"
    /\ call.info = NmcliRow(Reading(TRUE, AA, home, 54, 65))
    /\ Cardinality(Numerics(call.info)) = 3
    /\ call.entry.quality = 65
    /\ call.entry.rate = 54

\* C19 (as claimed): the line __repr__ prints for an entry, in use or not,
\* parses to an entry of the same in_use, bssid, ssid, quality and rate.
C19_ParseRenderRoundTrip ==
    call.step = "printed" =>
        /\ call.again.raised = ""
        /\ call.again.in_use = call.entry.in_use
        /\ call.again.bssid = call.entry.bssid
        /\ call.again.ssid = call.entry.ssid
        /\ call.again.quality = call.entry.quality
        /\ call.again.rate = call.entry.rate

\* C20: an update_connection pings at most once, for the entry of the line
\* in use it fetched; the latency of every other entry, candidates
\* included, stays what it was, so an entry has a latency only once it was
\* the entry in use of a scan; outside update_connection nothing changes.
C20_ProbeOnlyTheEntryInUse ==
    [][ /\ calls'.ping \in {calls.ping, calls.ping + 1}
        /\ calls'.scan = calls.scan => bssids' = bssids /\ calls'.ping = calls.ping
        /\ calls'.ping = calls.ping + 1 <=>
              calls'.scan = calls.scan + 1 /\ last'.current # <<>>
        /\ calls'.ping = calls.ping + 1 =>
              /\ bssids'[last'.current].in_use
              /\ \E i \in InUse(last'.infos) : last'.infos[i].bssid = last'.current
        /\ \A k \in DOMAIN bssids' :
              \/ bssids'[k].latency = LatencyOf(bssids, k)
              \/ calls'.ping = calls.ping + 1 /\ k = last'.current
        /\ \A i \in 1..Len(last'.candidates) :
              /\ ~bssids'[last'.candidates[i]].in_use
              /\ bssids'[last'.candidates[i]].latency
                    = LatencyOf(bssids, last'.candidates[i]) ]_vars

W_C20_FormerActiveKeepsLatency ==
    /\ Returned
    /\ calls.ping = 2
    /\ last.current = BB /\ last.candidates = <<AA, ZZ>>
    /\ last.probe = <<"0", "\n">>
    /\ bssids[AA].latency = 20 * Ms
    /\ bssids[ZZ].latency = None

\* C21: the first ping of an entry stores the measured latency; every later
\* ping of it stores (stored + measured) / 2, the stored value being the one
\* left by its last ping however many scans ago and whatever entry was in
\* use in between.
C21_SingleStepSmoothing ==
    [][ /\ calls'.ping = calls.ping + 1 =>
              bssids'[last'.current].latency =
                  IF LatencyOf(bssids, last'.current) = None
                  THEN Measured(last'.probe)
                  ELSE (LatencyOf(bssids, last'.current) + Measured(last'.probe)) \div 2
        /\ \A k \in DOMAIN bssids :
              bssids[k].latency # None /\ (calls'.ping = calls.ping \/ k # last'.current)
                  => bssids'[k].latency = bssids[k].latency ]_vars

W_C21_BackToAnEarlierEntry ==
    /\ Returned
    /\ calls.ping = 3
    /\ last.current = AA
    /\ BB \in DOMAIN bssids /\ bssids[BB].latency = 8000 * Ms
    /\ bssids[AA].latency = (20 * Ms + 8000 * Ms) \div 2

\* C22 (as claimed): after an update_connection, at most one entry of
\* _bssids on the managed ssid has in_use set, and an entry has in_use set
\* iff it is the entry of the line in use of the scan just merged.
C22_UniqueActiveEntry ==
    Returned =>
        /\ Cardinality({k \in DOMAIN bssids :
                            bssids[k].in_use /\ bssids[k].ssid = ssid}) <= 1
        /\ \A k \in DOMAIN bssids : bssids[k].in_use <=> k = last.current

\* C23 (as claimed): after an update_connection, every bssid on a line of
\* the scan, whatever its ssid and in_use, has an entry in _bssids; an entry
\* created by this scan has the fields of its line.
C23_EveryScannedBssidHasEntry ==
    Returned =>
        \A i \in 1..Len(last.infos) :
            /\ last.infos[i].bssid \in DOMAIN bssids
            /\ bssids[last.infos[i].bssid].bssid = last.infos[i].bssid
            /\ bssids[last.infos[i].bssid].ssid = last.infos[i].ssid
            /\ bssids[last.infos[i].bssid].quality = last.infos[i].quality

\* C24: connect() is called on an entry whose bssid is on a line of the
\* scan just made that is not in use and on the managed ssid, and is not
\* the bssid of the entry in use; the profile's bssid changes to nothing
\* else.
C24_ConnectsToScannedCandidate ==
    [][ /\ calls'.connect = calls.connect + 1 =>
              /\ \E i \in 1..Len(last'.infos) :
                    /\ last'.infos[i].bssid = last'.best
                    /\ ~last'.infos[i].in_use
                    /\ last'.infos[i].ssid = ssid'
              /\ last'.best # last'.current
              /\ \A i \in InUse(last'.infos) : last'.infos[i].bssid # last'.best
              /\ nm'.bssid = last'.best
        /\ calls'.connect = calls.connect => nm'.bssid \in {nm.bssid, <<>>} ]_vars

W_C24_OtherSsidNotChosen ==
    /\ Returned /\ last.returned
    /\ ssid = home
    /\ last.current = AA
    /\ \E i \in 1..Len(last.infos) :
          /\ last.infos[i].bssid = ZZ /\ last.infos[i].ssid = cafe
          /\ ~last.infos[i].in_use /\ last.infos[i].quality = 65
    /\ last.best = BB /\ nm.bssid = BB
    /\ bssids[BB].quality = 58

\* C25: an update_connection that scores a candidate has pinged exactly
\* once before, for the entry in use, right after the scan; the entry in
\* use therefore has a latency (the one this ping stored or averaged) when
\* calculate_score compares a candidate's latency with it, and no scoring
\* of a scan whose lines have their quality and rate raises.
C25_OnePingBeforeScoring ==
    [][ calls'.scan = calls.scan + 1 /\ Len(last'.scores) > 0 =>
          /\ calls'.ping = calls.ping + 1
          /\ Count("ping", last'.steps) = 1
          /\ last'.steps[1] = "scan" /\ last'.steps[2] = "ping"
          /\ \A i \in 3..(2 + Len(last'.scores)) : last'.steps[i] = "score"
          /\ last'.current # <<>>
          /\ bssids'[last'.current].in_use
          /\ bssids'[last'.current].latency # None
          /\ bssids'[last'.current].latency
                \in { Measured(last'.probe),
                      (LatencyOf(bssids, last'.current) + Measured(last'.probe)) \div 2 }
          /\ WellFormed(last'.infos) =>
                \A i \in 1..Len(last'.scores) : last'.scores[i].raised = "" ]_vars

W_C25_LatencyGateDecides ==
    /\ Returned
    /\ last.current = BB /\ last.candidates = <<AA>>
    /\ bssids[BB].latency = 20 * Ms
    /\ bssids[AA].latency = 8000 * Ms
    /\ bssids[AA].quality = 65 /\ bssids[BB].quality = 60
    /\ ~last.scores[1].accepted
    /\ interval = 300

====
